---- MODULE Spec2Model ----
(***************************************************************************)
(* Model of training/instruction-tune-llama-2-int4.ipynb: the prompt       *)
(* formatter format_instruction and the notebook's cell sequence (dataset  *)
(* load, model load, LoRA setup, SFTTrainer run, inference, merge).        *)
(* Text is modelled as sequences of one-character strings.                 *)
(***************************************************************************)
EXTENDS Integers, Sequences, FiniteSets, TLC

(***************************************************************************)
(* Bounds of the model.                                                    *)
(***************************************************************************)
\* longest record field, counted in fragments of Fragments
MaxFragments == 2
\* optimizer steps in one epoch (the real count is dataset size / batch)
StepsPerEpoch == 2
\* largest value of a modelled weight (weights are clipped to 0 .. WMax)
WMax == 1

VARIABLES
    pc,                  \* the statement the notebook is at
    status,              \* "running", "done" or "aborted" (kernel stopped)
    hub_dataset,         \* records of databricks-dolly-15k on the hub
    dataset,             \* `dataset` after load_dataset
    sample,              \* record last drawn with randrange
    out,                 \* string last returned to the notebook by format_instruction
    calls,               \* every <<record, string>> format_instruction has produced
    cap,                 \* torch.cuda.get_device_capability()[0]
    flash_block,         \* TRUE when the "COMMENT IN TO USE FLASH ATTENTION" block is commented in
    flash_check,         \* outcome of the capability command of the markdown cell
    use_flash_attention, \* the notebook variable of that name
    attn_patched,        \* LlamaAttention.forward replaced by the flash forward
    hub_w,               \* pretrained base weight on the hub
    model,               \* `model` of the training cells
    trainer,             \* SFTTrainer state
    disk,                \* output_dir "llama-7-int4-dolly" and "merged_model"
    imodel,              \* `model` of the inference cell
    mmodel,              \* `model` / `merged_model` of the merge cell
    prompt,              \* `prompt` of the generation cell
    gen                  \* the model.generate call in flight

vars ==
    <<pc, status, hub_dataset, dataset, sample, out, calls, cap, flash_block,
      flash_check, use_flash_attention, attn_patched, hub_w, model, trainer,
      disk, imodel, mmodel, prompt, gen>>

(***************************************************************************)
(* Literals of the prompt template (cell "def format_instruction").        *)
(***************************************************************************)
NL == <<"\n">>

HdrInstruction ==
    <<"#", "#", "#", " ", "I", "n", "s", "t", "r", "u", "c", "t", "i", "o",
      "n", ":">>

HdrInput ==
    <<"#", "#", "#", " ", "I", "n", "p", "u", "t", ":">>

HdrResponse ==
    <<"#", "#", "#", " ", "R", "e", "s", "p", "o", "n", "s", "e", ":">>

TaskText ==
    <<"U", "s", "e", " ", "t", "h", "e", " ", "I", "n", "p", "u", "t", " ",
      "b", "e", "l", "o", "w", " ", "t", "o", " ", "c", "r", "e", "a", "t",
      "e", " ", "a", "n", " ", "i", "n", "s", "t", "r", "u", "c", "t", "i",
      "o", "n", ",", " ", "w", "h", "i", "c", "h", " ", "c", "o", "u", "l",
      "d", " ", "h", "a", "v", "e", " ", "b", "e", "e", "n", " ", "u", "s",
      "e", "d", " ", "t", "o", " ", "g", "e", "n", "e", "r", "a", "t", "e",
      " ", "t", "h", "e", " ", "i", "n", "p", "u", "t", " ", "u", "s", "i",
      "n", "g", " ", "a", "n", " ", "L", "L", "M", ".", " ">>

SkyInstruction ==
    <<"W", "h", "a", "t", " ", "c", "o", "l", "o", "r", " ", "i", "s", " ",
      "t", "h", "e", " ", "s", "k", "y", "?">>

SkyResponse ==
    <<"B", "l", "u", "e", ".">>

\* format_instruction with the Input and Response sections exchanged
format_instruction_misordered(s) ==
    HdrInstruction \o NL \o TaskText \o NL \o NL
        \o HdrResponse \o NL \o s.instruction \o NL \o NL
        \o HdrInput \o NL \o s.response \o NL

\* format_instruction with the two fields not swapped
format_instruction_unswapped(s) ==
    HdrInstruction \o NL \o TaskText \o NL \o NL
        \o HdrInput \o NL \o s.instruction \o NL \o NL
        \o HdrResponse \o NL \o s.response \o NL

\* format_instruction without the newline that closes the f-string
format_instruction_stripped(s) ==
    HdrInstruction \o NL \o TaskText \o NL \o NL
        \o HdrInput \o NL \o s.response \o NL \o NL
        \o HdrResponse \o NL \o s.instruction

\* format_instruction that refuses a record with an empty field
format_instruction_validating(s) ==
    IF s.response = <<>> \/ s.instruction = <<>> THEN <<>>
    ELSE HdrInstruction \o NL \o TaskText \o NL \o NL
            \o HdrInput \o NL \o s.response \o NL \o NL
            \o HdrResponse \o NL \o s.instruction \o NL

\* format_instruction that reads the trainer's step counter
format_instruction_stateful(s) ==
    HdrInstruction \o NL \o TaskText \o NL \o NL
        \o HdrInput \o NL \o s.response \o NL \o NL
        \o HdrResponse \o NL \o s.instruction
        \o (IF trainer.global_step > 0 THEN <<>> ELSE NL)

\* f-string of format_instruction: three headers, `response` under Input,
\* `instruction` under Response, one trailing newline.
format_instruction(s) ==
    HdrInstruction \o NL \o TaskText \o NL \o NL
        \o HdrInput \o NL \o s.response \o NL \o NL
        \o HdrResponse \o NL \o s.instruction \o NL

(***************************************************************************)
(* Program constants.                                                      *)
(***************************************************************************)
\* TrainingArguments(num_train_epochs=3)
NumTrainEpochs == 3
\* torch.cuda.get_device_capability()[0] >= 8
FlashMinCapability == 8
\* LoraConfig(lora_alpha=16, r=64): the adapter's delta is scaled by alpha / r
LoraAlpha == 16
LoraR == 64
\* model.generate(max_new_tokens=100, do_sample=True, top_p=0.9, temperature=0.9);
\* the two sampling parameters are held in tenths
MaxNewTokens == 100
TopPTenths == 9
TemperatureTenths == 9

(***************************************************************************)
(* Inputs.                                                                 *)
(***************************************************************************)
\* pieces the fields of a record are built from: plain text, a newline and
\* the three header texts themselves
Fragments == {<<"a">>, <<"#">>, NL, HdrInstruction, HdrInput, HdrResponse}

RECURSIVE FieldsUpTo(_)
FieldsUpTo(n) ==
    IF n = 0 THEN {<<>>}
    ELSE LET S == FieldsUpTo(n - 1)
         IN  S \cup {f \o g : f \in S, g \in Fragments}

Fields == FieldsUpTo(MaxFragments) \cup {SkyInstruction, SkyResponse}

\* a record of the dataset (context and category are never read)
Records == [instruction : Fields, response : Fields]

SkyRecord == [instruction |-> SkyInstruction, response |-> SkyResponse]

\* the dataset the pipeline runs on
PipelineDataset == <<SkyRecord, [instruction |-> <<"a">>, response |-> <<>>]>>

Capabilities == (FlashMinCapability - 1) .. FlashMinCapability

Weights == 0 .. WMax

Grads == {0 - 1, 1}

Clip(v) == IF v > WMax THEN WMax ELSE IF v < 0 THEN 0 ELSE v

(***************************************************************************)
(* Values of the notebook's objects.                                       *)
(***************************************************************************)
NoModel ==
    [loaded |-> FALSE, quant |-> "none", w |-> 0, grad_w |-> FALSE,
     peft |-> FALSE, A |-> 0, B |-> 0, grad_lora |-> FALSE,
     flash |-> FALSE, upcast |-> FALSE]

NoAdapter == [saved |-> FALSE, A |-> 0, B |-> 0]

NoMerged == [saved |-> FALSE, w |-> 0, peft |-> FALSE]

NoTrainer ==
    [built |-> FALSE, started |-> FALSE, running |-> FALSE, epoch |-> 0,
     step |-> 0, global_step |-> 0, batch |-> 0]

\* no model.generate call in flight
GenIdle ==
    [running |-> FALSE, finished |-> FALSE, input_len |-> 0,
     new_tokens |-> 0, eos |-> FALSE, do_sample |-> FALSE, top_p |-> 0,
     temperature |-> 0]

EmptyDisk ==
    [checkpoints |-> {}, adapter |-> NoAdapter, tokenizer |-> FALSE,
     merged |-> NoMerged, merged_tokenizer |-> FALSE]

\* the statements with trainer.save_model() ahead of trainer.train()
CellOrder_save_first ==
    <<"flash_setup", "install", "load_dataset", "def_format", "test_format",
      "load_model", "lora_config", "train_args", "make_trainer", "save_model",
      "train", "load_inference", "generate", "merge", "end">>

\* the cells' statements in notebook order
CellOrder ==
    <<"flash_setup", "install", "load_dataset", "def_format", "test_format",
      "load_model", "lora_config", "train_args", "make_trainer", "train",
      "save_model", "load_inference", "generate", "merge", "end">>

CellIndex(p) == CHOOSE i \in 1 .. Len(CellOrder) : CellOrder[i] = p

After(p) == CellOrder[CellIndex(p) + 1]

\* a notebook that runs a cell whether or not an earlier one has failed
Running_after_failure(p) == pc = p

Running(p) == status = "running" /\ pc = p

Init ==
    /\ pc = "install"
    /\ status = "running"
    /\ hub_dataset = PipelineDataset
    /\ dataset = <<>>
    /\ sample = [instruction |-> <<>>, response |-> <<>>]
    /\ out = <<>>
    /\ calls = {}
    /\ cap \in Capabilities
    /\ flash_block \in BOOLEAN
    /\ flash_check = "not_run"
    /\ use_flash_attention = FALSE
    /\ attn_patched = FALSE
    /\ hub_w \in Weights
    /\ model = NoModel
    /\ trainer = NoTrainer
    /\ disk = EmptyDisk
    /\ imodel = NoModel
    /\ mmodel = NoModel
    /\ prompt = <<>>
    /\ gen = GenIdle

(***************************************************************************)
(* Model loading and adapter set-up.  A weight is a fixed-point number     *)
(* with denominator LoraR, so that the LoRA scaling alpha / r is integral. *)
(***************************************************************************)
\* utils.llama_patch.replace_attn_with_flash_attn(): LlamaAttention.forward
\* is the flash forward from now on
replace_attn_with_flash_attn == TRUE

\* utils.llama_patch.unplace_flash_attn_with_attn(): the original forward
unplace_flash_attn_with_attn == FALSE

\* utils.llama_patch.upcast_layer_for_flash_attention(model, torch_dtype)
upcast_layer_for_flash_attention(m) == [m EXCEPT !.upcast = TRUE]

\* AutoModelForCausalLM.from_pretrained(model_id, quantization_config=bnb_config, ...)
from_pretrained(w, patched) ==
    [NoModel EXCEPT !.loaded = TRUE, !.quant = "nf4", !.w = w,
                    !.grad_w = TRUE, !.flash = patched]

\* prepare_model_for_kbit_training(model): every parameter is frozen
prepare_model_for_kbit_training(m) == [m EXCEPT !.grad_w = FALSE]

\* get_peft_model(model, peft_config), bias="none": lora_A random, lora_B
\* zero, only the adapter is trainable
get_peft_model(m, a) ==
    [m EXCEPT !.peft = TRUE, !.A = a, !.B = 0, !.grad_lora = TRUE,
              !.grad_w = FALSE]

\* AutoPeftModelForCausalLM.from_pretrained(args.output_dir, ...): the base
\* model from the hub with the saved adapter on top, in inference mode
AutoPeftModel_from_pretrained(w, adapter, quant, patched) ==
    [NoModel EXCEPT !.loaded = TRUE, !.quant = quant, !.w = w,
                    !.peft = TRUE, !.A = adapter.A, !.B = adapter.B,
                    !.flash = patched]

\* the adapter's contribution to the adapted layer's weight: B A alpha / r
LoraDelta(m) == LoraAlpha * (m.B * m.A)

\* the adapted layer applied to input x: W x + (alpha / r) B (A x)
Forward(m, x) ==
    m.w * x + (IF m.peft THEN LoraAlpha * (m.B * (m.A * x)) ELSE 0)

\* model.merge_and_unload() without the scaling factor
merge_and_unload_unscaled(m) ==
    [m EXCEPT !.w = m.w + m.B * m.A, !.peft = FALSE, !.A = 0, !.B = 0]

\* model.merge_and_unload(): the delta is added to the base weight and the
\* LoRA layer is replaced by a plain one
merge_and_unload(m) ==
    [m EXCEPT !.w = m.w + LoraDelta(m), !.peft = FALSE, !.A = 0, !.B = 0]

(***************************************************************************)
(* Cells before training.                                                  *)
(***************************************************************************)
\* the capability test with the threshold one generation too low
CapabilityOK_any(c) == c >= FlashMinCapability - 1

\* if torch.cuda.get_device_capability()[0] >= 8:
CapabilityOK(c) == c >= FlashMinCapability

\* markdown cell: python -c "import torch; assert ...get_device_capability()[0] >= 8"
\* run by hand in a shell before the notebook; the kernel is not involved
CapabilityAssert ==
    /\ Running("flash_setup")
    /\ flash_check' = IF CapabilityOK(cap) THEN "passed" ELSE "assertion_failed"
    /\ pc' = After("flash_setup")
    /\ UNCHANGED <<gen, status, hub_dataset, dataset, sample, out, calls, cap,
                   flash_block, use_flash_attention, attn_patched, hub_w,
                   model, trainer, disk, imodel, mmodel, prompt>>

\* the command is optional ("You can check if your GPU is supported")
SkipCapabilityAssert ==
    /\ Running("flash_setup")
    /\ pc' = After("flash_setup")
    /\ UNCHANGED <<gen, status, hub_dataset, dataset, sample, out, calls, cap,
                   flash_block, flash_check, use_flash_attention,
                   attn_patched, hub_w, model, trainer, disk, imodel, mmodel,
                   prompt>>

\* !pip install ...
Install ==
    /\ Running("install")
    /\ pc' = After("install")
    /\ UNCHANGED <<gen, status, hub_dataset, dataset, sample, out, calls, cap,
                   flash_block, flash_check, use_flash_attention,
                   attn_patched, hub_w, model, trainer, disk, imodel, mmodel,
                   prompt>>

\* dataset = load_dataset(...); print(dataset[randrange(len(dataset))])
LoadDataset ==
    /\ Running("load_dataset")
    /\ dataset' = hub_dataset
    /\ pc' = After("load_dataset")
    /\ UNCHANGED <<gen, status, hub_dataset, sample, out, calls, cap, flash_block,
                   flash_check, use_flash_attention, attn_patched, hub_w,
                   model, trainer, disk, imodel, mmodel, prompt>>

\* def format_instruction(sample): ...
DefFormat ==
    /\ Running("def_format")
    /\ pc' = After("def_format")
    /\ UNCHANGED <<gen, status, hub_dataset, dataset, sample, out, calls, cap,
                   flash_block, flash_check, use_flash_attention,
                   attn_patched, hub_w, model, trainer, disk, imodel, mmodel,
                   prompt>>

\* print(format_instruction(dataset[randrange(len(dataset))]))
TestFormat ==
    /\ Running("test_format")
    /\ \E i \in 1 .. Len(dataset) :
          /\ sample' = dataset[i]
          /\ out' = format_instruction(dataset[i])
          /\ calls' = calls \cup {<<dataset[i], format_instruction(dataset[i])>>}
    /\ pc' = After("test_format")
    /\ UNCHANGED <<gen, status, hub_dataset, dataset, cap, flash_block,
                   flash_check, use_flash_attention, attn_patched, hub_w,
                   model, trainer, disk, imodel, mmodel, prompt>>

\* cell 4: use_flash_attention, the flash block, the model, the validation
\* assert, the tokenizer
LoadModel ==
    /\ Running("load_model")
    /\ LET enable == flash_block /\ CapabilityOK(cap)
           patched == IF enable THEN replace_attn_with_flash_attn
                      ELSE attn_patched
           m == from_pretrained(hub_w, patched)
       IN  /\ use_flash_attention' = enable
           /\ attn_patched' = patched
           /\ model' = m
           /\ IF enable /\ ~m.flash
              THEN status' = "aborted" /\ pc' = pc
              ELSE status' = status /\ pc' = After("load_model")
    /\ UNCHANGED <<gen, hub_dataset, dataset, sample, out, calls, cap,
                   flash_block, flash_check, hub_w, trainer, disk, imodel,
                   mmodel, prompt>>

\* cell 5: peft_config; model = prepare_model_for_kbit_training(model)
LoraConfigCell ==
    /\ Running("lora_config")
    /\ model' = prepare_model_for_kbit_training(model)
    /\ pc' = After("lora_config")
    /\ UNCHANGED <<gen, status, hub_dataset, dataset, sample, out, calls, cap,
                   flash_block, flash_check, use_flash_attention,
                   attn_patched, hub_w, trainer, disk, imodel, mmodel,
                   prompt>>

\* cell 6: args = TrainingArguments(...); the upcast; get_peft_model
TrainArgsCell ==
    /\ Running("train_args")
    /\ \E a \in Weights :
          model' = get_peft_model(
                       IF use_flash_attention
                       THEN upcast_layer_for_flash_attention(model)
                       ELSE model, a)
    /\ pc' = After("train_args")
    /\ UNCHANGED <<gen, status, hub_dataset, dataset, sample, out, calls, cap,
                   flash_block, flash_check, use_flash_attention,
                   attn_patched, hub_w, trainer, disk, imodel, mmodel,
                   prompt>>

\* cell 7: trainer = SFTTrainer(model=model, ..., args=args)
MakeTrainer ==
    /\ Running("make_trainer")
    /\ trainer' = [NoTrainer EXCEPT
                      !.built = TRUE,
                      !.batch = IF use_flash_attention THEN 6 ELSE 4]
    /\ pc' = After("make_trainer")
    /\ UNCHANGED <<gen, status, hub_dataset, dataset, sample, out, calls, cap,
                   flash_block, flash_check, use_flash_attention,
                   attn_patched, hub_w, model, disk, imodel, mmodel, prompt>>

(***************************************************************************)
(* Training: trainer.train() with num_train_epochs=3, save_strategy=       *)
(* "epoch", then trainer.save_model().                                     *)
(***************************************************************************)
\* an optimizer step that updates every parameter, frozen or not
OptimizerStep_all(m, g) ==
    [m EXCEPT !.w = Clip(@ + g.A), !.A = Clip(@ + g.A), !.B = Clip(@ + g.B)]

\* one optimizer step (paged_adamw_32bit): the parameters that require a
\* gradient move, the others stay
OptimizerStep(m, g) ==
    [m EXCEPT !.w = IF m.grad_w THEN Clip(@ + g.A) ELSE @,
              !.A = IF m.grad_lora THEN Clip(@ + g.A) ELSE @,
              !.B = IF m.grad_lora THEN Clip(@ + g.B) ELSE @]

\* checkpointing that keeps the newest checkpoint only (save_total_limit=1)
SaveCheckpoint_rotating(ckpts, c) == {c}

\* _save_checkpoint: checkpoint-<global_step> is added under output_dir;
\* save_total_limit is not set, so no older checkpoint is deleted
SaveCheckpoint(ckpts, c) == ckpts \cup {c}

\* trainer.train() is entered
TrainBegin ==
    /\ Running("train")
    /\ trainer.built /\ ~trainer.running /\ ~trainer.started
    /\ trainer' = [trainer EXCEPT !.running = TRUE, !.started = TRUE]
    /\ UNCHANGED <<gen, pc, status, hub_dataset, dataset, sample, out, calls, cap,
                   flash_block, flash_check, use_flash_attention,
                   attn_patched, hub_w, model, disk, imodel, mmodel, prompt>>

\* one step of the loop: the packed dataset, which walks the records in
\* order, formats the next one with formatting_func, and the optimizer
\* updates the trainable parameters
TrainStep ==
    /\ Running("train")
    /\ trainer.running
    /\ trainer.epoch < NumTrainEpochs
    /\ trainer.step < StepsPerEpoch
    /\ LET i == (trainer.global_step % Len(dataset)) + 1
       IN  calls' = calls \cup {<<dataset[i], format_instruction(dataset[i])>>}
    /\ \E g \in [A : Grads, B : Grads] : model' = OptimizerStep(model, g)
    /\ trainer' = [trainer EXCEPT !.step = @ + 1, !.global_step = @ + 1]
    /\ UNCHANGED <<gen, pc, status, hub_dataset, dataset, sample, out, cap,
                   flash_block, flash_check, use_flash_attention,
                   attn_patched, hub_w, disk, imodel, mmodel, prompt>>

\* end of an epoch: save_strategy="epoch" writes a checkpoint
EpochEnd ==
    /\ Running("train")
    /\ trainer.running
    /\ trainer.epoch < NumTrainEpochs
    /\ trainer.step = StepsPerEpoch
    /\ disk' = [disk EXCEPT !.checkpoints =
                   SaveCheckpoint(@, [epoch |-> trainer.epoch + 1,
                                      global_step |-> trainer.global_step,
                                      A |-> model.A, B |-> model.B])]
    /\ trainer' = [trainer EXCEPT !.epoch = @ + 1, !.step = 0]
    /\ UNCHANGED <<gen, pc, status, hub_dataset, dataset, sample, out, calls, cap,
                   flash_block, flash_check, use_flash_attention,
                   attn_patched, hub_w, model, imodel, mmodel, prompt>>

\* trainer.train() returns after the last epoch
TrainReturn ==
    /\ Running("train")
    /\ trainer.running
    /\ trainer.epoch = NumTrainEpochs
    /\ trainer' = [trainer EXCEPT !.running = FALSE]
    /\ pc' = After("train")
    /\ UNCHANGED <<gen, status, hub_dataset, dataset, sample, out, calls, cap,
                   flash_block, flash_check, use_flash_attention,
                   attn_patched, hub_w, model, disk, imodel, mmodel, prompt>>

\* the run is interrupted inside trainer.train(): the process and what it
\* holds in memory are gone, the files stay
Interrupt ==
    /\ Running("train")
    /\ trainer.running
    /\ status' = "aborted"
    /\ trainer' = [trainer EXCEPT !.running = FALSE]
    /\ model' = NoModel
    /\ UNCHANGED <<gen, pc, hub_dataset, dataset, sample, out, calls, cap,
                   flash_block, flash_check, use_flash_attention,
                   attn_patched, hub_w, disk, imodel, mmodel, prompt>>

\* trainer.save_model(): adapter and tokenizer go to output_dir
SaveModel ==
    /\ Running("save_model")
    /\ trainer.built
    /\ disk' = [disk EXCEPT
                   !.adapter = [saved |-> TRUE, A |-> model.A, B |-> model.B],
                   !.tokenizer = TRUE]
    /\ pc' = After("save_model")
    /\ UNCHANGED <<gen, status, hub_dataset, dataset, sample, out, calls, cap,
                   flash_block, flash_check, use_flash_attention,
                   attn_patched, hub_w, model, trainer, imodel, mmodel,
                   prompt>>

(***************************************************************************)
(* Inference and merge.                                                    *)
(***************************************************************************)
\* the prompt f-string with the trailing blank of its second line stripped
InferencePrompt_stripped(s) ==
    HdrInstruction \o NL \o SubSeq(TaskText, 1, Len(TaskText) - 1) \o NL \o NL
        \o HdrInput \o NL \o s.response \o NL \o NL
        \o HdrResponse \o NL

\* the prompt f-string of the generation cell
InferencePrompt(s) ==
    HdrInstruction \o NL \o TaskText \o NL \o NL
        \o HdrInput \o NL \o s.response \o NL \o NL
        \o HdrResponse \o NL

\* cell 9: unpatch flash attention, load adapter model and tokenizer from
\* output_dir; loading fails when nothing has been saved there
LoadInference ==
    /\ Running("load_inference")
    /\ attn_patched' = IF use_flash_attention
                       THEN unplace_flash_attn_with_attn ELSE attn_patched
    /\ IF disk.adapter.saved /\ disk.tokenizer
       THEN /\ imodel' = AutoPeftModel_from_pretrained(
                             hub_w, disk.adapter, "nf4", attn_patched')
            /\ status' = status
            /\ pc' = After("load_inference")
       ELSE /\ imodel' = imodel
            /\ status' = "aborted"
            /\ pc' = pc
    /\ UNCHANGED <<gen, hub_dataset, dataset, sample, out, calls, cap,
                   flash_block, flash_check, use_flash_attention, hub_w,
                   model, trainer, disk, mmodel, prompt>>

\* cell 10 as one step: reload the dataset, draw a sample, build the prompt,
\* generate and print; the generate call is over when the cell is
Generate ==
    /\ Running("generate")
    /\ dataset' = hub_dataset
    /\ \E i \in 1 .. Len(hub_dataset) :
          /\ sample' = hub_dataset[i]
          /\ prompt' = InferencePrompt(hub_dataset[i])
    /\ pc' = After("generate")
    /\ UNCHANGED <<gen, status, hub_dataset, out, calls, cap, flash_block,
                   flash_check, use_flash_attention, attn_patched, hub_w,
                   model, trainer, disk, imodel, mmodel>>

\* the stopping test that lets one token too many through
StopGenerating_late(n, tok) == tok = "eos" \/ n > MaxNewTokens

\* generate's stopping criteria, tested after each sampled token: the token
\* is end-of-sequence, or max_new_tokens new tokens have been appended
StopGenerating(n, tok) == tok = "eos" \/ n >= MaxNewTokens

\* cell 10 step by step, up to the call of model.generate: the prompt is
\* tokenized (one token per character after the begin-of-sequence token)
GenerateBegin ==
    /\ Running("generate")
    /\ ~gen.running /\ ~gen.finished
    /\ dataset' = hub_dataset
    /\ \E i \in 1 .. Len(hub_dataset) :
          /\ sample' = hub_dataset[i]
          /\ prompt' = InferencePrompt(hub_dataset[i])
    /\ gen' = [GenIdle EXCEPT !.running = TRUE,
                              !.input_len = 1 + Len(prompt'),
                              !.do_sample = TRUE,
                              !.top_p = TopPTenths,
                              !.temperature = TemperatureTenths]
    /\ UNCHANGED <<pc, status, hub_dataset, out, calls, cap, flash_block,
                   flash_check, use_flash_attention, attn_patched, hub_w,
                   model, trainer, disk, imodel, mmodel>>

\* one token is sampled and appended to the sequence
GenerateToken ==
    /\ Running("generate")
    /\ gen.running
    /\ \E tok \in {"eos", "other"} :
          gen' = [gen EXCEPT
                     !.new_tokens = @ + 1,
                     !.eos = (tok = "eos"),
                     !.running = ~StopGenerating(gen.new_tokens + 1, tok),
                     !.finished = StopGenerating(gen.new_tokens + 1, tok)]
    /\ UNCHANGED <<pc, status, hub_dataset, dataset, sample, out, calls, cap,
                   flash_block, flash_check, use_flash_attention,
                   attn_patched, hub_w, model, trainer, disk, imodel, mmodel,
                   prompt>>

\* model.generate has returned: the three prints, end of the cell
GenerateEnd ==
    /\ Running("generate")
    /\ gen.finished
    /\ gen' = GenIdle
    /\ pc' = After("generate")
    /\ UNCHANGED <<status, hub_dataset, dataset, sample, out, calls, cap,
                   flash_block, flash_check, use_flash_attention,
                   attn_patched, hub_w, model, trainer, disk, imodel, mmodel,
                   prompt>>

\* cell 11: load the adapter model unquantized, merge_and_unload, save the
\* merged model and the tokenizer to "merged_model"
Merge ==
    /\ Running("merge")
    /\ IF disk.adapter.saved
       THEN /\ mmodel' = merge_and_unload(
                             AutoPeftModel_from_pretrained(
                                 hub_w, disk.adapter, "none", attn_patched))
            /\ disk' = [disk EXCEPT
                           !.merged = [saved |-> TRUE, w |-> mmodel'.w,
                                       peft |-> mmodel'.peft],
                           !.merged_tokenizer = TRUE]
            /\ status' = "done"
            /\ pc' = After("merge")
       ELSE /\ mmodel' = mmodel
            /\ disk' = disk
            /\ status' = "aborted"
            /\ pc' = pc
    /\ UNCHANGED <<gen, hub_dataset, dataset, sample, out, calls, cap,
                   flash_block, flash_check, use_flash_attention,
                   attn_patched, hub_w, model, trainer, imodel, prompt>>

\* the stages whose library calls can raise: dataset load, model load,
\* training, inference (load and generate), merge
FailingStages ==
    {"load_dataset", "load_model", "train", "load_inference", "generate",
     "merge"}

\* a library call of the stage raises (download failure, out of memory,
\* malformed batch): no try/except surrounds any call, the exception ends
\* the run where it is; what the training process held is gone
FatalError ==
    /\ \E p \in FailingStages : Running(p)
    /\ status' = "aborted"
    /\ trainer' = [trainer EXCEPT !.running = FALSE]
    /\ model' = NoModel
    /\ UNCHANGED <<gen, pc, hub_dataset, dataset, sample, out, calls, cap,
                   flash_block, flash_check, use_flash_attention,
                   attn_patched, hub_w, disk, imodel, mmodel, prompt>>

\* format_instruction applied to a record of the dataset, at any moment
\* after its definition
FormatProbe ==
    /\ CellIndex(pc) > CellIndex("def_format")
    /\ dataset # <<>>
    /\ \E i \in 1 .. Len(dataset) :
          calls' = calls \cup {<<dataset[i], format_instruction(dataset[i])>>}
    /\ UNCHANGED <<gen, pc, status, hub_dataset, dataset, sample, out, cap,
                   flash_block, flash_check, use_flash_attention,
                   attn_patched, hub_w, model, trainer, disk, imodel, mmodel,
                   prompt>>

Next ==
    \/ Install
    \/ LoadDataset
    \/ DefFormat
    \/ TestFormat
    \/ LoadModel
    \/ LoraConfigCell
    \/ TrainArgsCell
    \/ MakeTrainer
    \/ TrainBegin
    \/ TrainStep
    \/ EpochEnd
    \/ TrainReturn
    \/ Interrupt
    \/ SaveModel
    \/ LoadInference
    \/ Generate
    \/ Merge
    \/ FatalError
    \/ FormatProbe

Spec == Init /\ [][Next]_vars

(***************************************************************************)
(* The formatter on its own: any one-record dataset, cells up to the test  *)
(* print.                                                                  *)
(***************************************************************************)
InitFormat ==
    /\ pc = "load_dataset"
    /\ status = "running"
    /\ hub_dataset \in {<<r>> : r \in Records}
    /\ dataset = <<>>
    /\ sample = [instruction |-> <<>>, response |-> <<>>]
    /\ out = <<>>
    /\ calls = {}
    /\ cap = FlashMinCapability
    /\ flash_block = FALSE
    /\ flash_check = "not_run"
    /\ use_flash_attention = FALSE
    /\ attn_patched = FALSE
    /\ hub_w = 0
    /\ model = NoModel
    /\ trainer = NoTrainer
    /\ disk = EmptyDisk
    /\ imodel = NoModel
    /\ mmodel = NoModel
    /\ prompt = <<>>
    /\ gen = GenIdle

NextFormat == LoadDataset \/ DefFormat \/ TestFormat

SpecFormat == InitFormat /\ [][NextFormat]_vars

(***************************************************************************)
(* The set-up instructions followed by the notebook up to the trainer: the *)
(* capability command of the markdown cell is run (or not) in a shell      *)
(* before the first cell.                                                  *)
(***************************************************************************)
InitFlash ==
    /\ pc = "flash_setup"
    /\ status = "running"
    /\ hub_dataset = PipelineDataset
    /\ dataset = <<>>
    /\ sample = [instruction |-> <<>>, response |-> <<>>]
    /\ out = <<>>
    /\ calls = {}
    /\ cap \in Capabilities
    /\ flash_block \in BOOLEAN
    /\ flash_check = "not_run"
    /\ use_flash_attention = FALSE
    /\ attn_patched = FALSE
    /\ hub_w \in Weights
    /\ model = NoModel
    /\ trainer = NoTrainer
    /\ disk = EmptyDisk
    /\ imodel = NoModel
    /\ mmodel = NoModel
    /\ prompt = <<>>
    /\ gen = GenIdle

NextFlash ==
    \/ CapabilityAssert
    \/ SkipCapabilityAssert
    \/ Install
    \/ LoadDataset
    \/ DefFormat
    \/ TestFormat
    \/ LoadModel
    \/ LoraConfigCell
    \/ TrainArgsCell
    \/ MakeTrainer

SpecFlash == InitFlash /\ [][NextFlash]_vars

(***************************************************************************)
(* The notebook about to run the generation cell, on dataset ds with base  *)
(* weight w: trained for 3 epochs (every gradient positive), adapter and   *)
(* tokenizer saved, adapter model loaded for inference.                    *)
(***************************************************************************)
AdapterAfter(steps) == [saved |-> TRUE, A |-> WMax, B |-> Clip(steps)]

AtGenerate(ds, w) ==
    LET steps == NumTrainEpochs * StepsPerEpoch
        final == AdapterAfter(steps)
    IN  /\ pc = "generate"
        /\ status = "running"
        /\ hub_dataset = ds
        /\ dataset = ds
        /\ sample = ds[1]
        /\ out = format_instruction(ds[1])
        /\ calls = {<<ds[i], format_instruction(ds[i])>> : i \in 1 .. Len(ds)}
        /\ cap = FlashMinCapability
        /\ flash_block = FALSE
        /\ flash_check = "not_run"
        /\ use_flash_attention = FALSE
        /\ attn_patched = FALSE
        /\ hub_w = w
        /\ model = [get_peft_model(
                        prepare_model_for_kbit_training(
                            from_pretrained(w, FALSE)), WMax)
                        EXCEPT !.B = final.B]
        /\ trainer = [NoTrainer EXCEPT !.built = TRUE, !.started = TRUE,
                                       !.epoch = NumTrainEpochs,
                                       !.global_step = steps, !.batch = 4]
        /\ disk = [EmptyDisk EXCEPT
                      !.checkpoints =
                          {[epoch |-> e, global_step |-> e * StepsPerEpoch,
                            A |-> WMax, B |-> Clip(e * StepsPerEpoch)] :
                               e \in 1 .. NumTrainEpochs},
                      !.adapter = final,
                      !.tokenizer = TRUE]
        /\ imodel = AutoPeftModel_from_pretrained(w, final, "nf4", FALSE)
        /\ mmodel = NoModel
        /\ prompt = <<>>
        /\ gen = GenIdle

(***************************************************************************)
(* The generation cell's prompt on any one-record dataset.                 *)
(***************************************************************************)
InitPrompt == \E r \in Records : AtGenerate(<<r>>, 0)

NextPrompt == Generate

SpecPrompt == InitPrompt /\ [][NextPrompt]_vars

(***************************************************************************)
(* The generation cell token by token; model.generate is a blocking loop   *)
(* that keeps sampling until it stops.                                     *)
(***************************************************************************)
InitGenerate == \E w \in Weights : AtGenerate(PipelineDataset, w)

NextGenerate == GenerateBegin \/ GenerateToken \/ GenerateEnd

SpecGenerate ==
    InitGenerate /\ [][NextGenerate]_vars /\ WF_vars(GenerateToken)

(***************************************************************************)
(* Vocabulary of the properties of the formatter.                          *)
(***************************************************************************)
OccursAt(h, s, i) ==
    /\ i + Len(h) - 1 <= Len(s)
    /\ \A k \in 1 .. Len(h) : s[i + k - 1] = h[k]

Occurrences(h, s) == {i \in 1 .. Len(s) : OccursAt(h, s, i)}

HeaderFree(f) ==
    /\ Occurrences(HdrInstruction, f) = {}
    /\ Occurrences(HdrInput, f) = {}
    /\ Occurrences(HdrResponse, f) = {}

ExactlyOneEachInOrder(s) ==
    LET a == Occurrences(HdrInstruction, s)
        b == Occurrences(HdrInput, s)
        c == Occurrences(HdrResponse, s)
    IN  /\ Cardinality(a) = 1
        /\ Cardinality(b) = 1
        /\ Cardinality(c) = 1
        /\ \A i \in a, j \in b, k \in c : i < j /\ j < k

ContainsInOrder(s) ==
    \E i \in Occurrences(HdrInstruction, s), j \in Occurrences(HdrInput, s),
       k \in Occurrences(HdrResponse, s) : i < j /\ j < k

EndsWith(s, t) ==
    /\ Len(t) <= Len(s)
    /\ SubSeq(s, Len(s) - Len(t) + 1, Len(s)) = t

Formatted == out # <<>>

NonEmptyFields == sample.instruction # <<>> /\ sample.response # <<>>

(***************************************************************************)
(* C1                                                                      *)
(***************************************************************************)
\* C1 as stated: for every record with non-empty instruction and response,
\* of any content, the formatted string holds each of the three headers
\* exactly once, in the order Instruction, Input, Response.
C1_AnyContent ==
    (Formatted /\ NonEmptyFields) => ExactlyOneEachInOrder(out)

\* C1 amended: for every record whose non-empty instruction and response
\* contain none of the three header texts, the formatted string holds each
\* header exactly once, in the order Instruction, Input, Response.
C1_HeaderFree ==
    (Formatted /\ NonEmptyFields /\ HeaderFree(sample.instruction)
        /\ HeaderFree(sample.response))
    => ExactlyOneEachInOrder(out)

\* a formatted record with header-free text containing a newline
C1_Witness ==
    /\ Formatted
    /\ sample.instruction = <<"a">> \o NL
    /\ sample.response = NL \o <<"a">>

(***************************************************************************)
(* C2                                                                      *)
(***************************************************************************)
\* C2: the text after the "### Input:" header line is the record's response,
\* character for character, the "### Response:" header follows it after one
\* blank line, and the text after that header line is the record's
\* instruction, character for character, up to the closing newline.
C2_FieldsVerbatimSwapped ==
    Formatted =>
        LET i == CHOOSE m \in Occurrences(HdrInput, out) :
                     \A n \in Occurrences(HdrInput, out) : m <= n
            r == i + Len(HdrInput) + 1
            j == r + Len(sample.response) + 2
            q == j + Len(HdrResponse) + 1
        IN  /\ Occurrences(HdrInput, out) # {}
            /\ SubSeq(out, r, r + Len(sample.response) - 1) = sample.response
            /\ OccursAt(HdrResponse, out, j)
            /\ SubSeq(out, q, q + Len(sample.instruction) - 1) = sample.instruction
            /\ Len(out) = q + Len(sample.instruction)

\* a formatted record whose two fields differ, one of them holding a header
C2_Witness ==
    /\ Formatted
    /\ sample.response = HdrResponse \o NL
    /\ sample.instruction = <<"a">>

(***************************************************************************)
(* C3                                                                      *)
(***************************************************************************)
SkySuffix ==
    HdrInput \o <<"\n", "B", "l", "u", "e", ".", "\n", "\n">> \o HdrResponse
        \o NL \o SkyInstruction \o NL

\* C3: the formatted string ends with "### Input:\n" R "\n\n### Response:\n"
\* I "\n"; for the sky record that suffix is the one the spec spells out.
C3_Suffix ==
    Formatted =>
        /\ EndsWith(out, HdrInput \o NL \o sample.response \o NL \o NL
                            \o HdrResponse \o NL \o sample.instruction \o NL)
        /\ (sample = SkyRecord => EndsWith(out, SkySuffix))

\* the sky record has been formatted
C3_Witness == Formatted /\ sample = SkyRecord

C5_Total ==
    pc = After("test_format") =>
        /\ status = "running"
        /\ Formatted
        /\ ContainsInOrder(out)

\* a record with two empty fields has been formatted
C5_Witness ==
    /\ pc = After("test_format")
    /\ sample.instruction = <<>>
    /\ sample.response = <<>>

(***************************************************************************)
(* C6                                                                      *)
(***************************************************************************)
\* the lifecycle state, read off the trainer and the files
Phase ==
    IF disk.merged.saved THEN "merged"
    ELSE IF trainer.running THEN "training"
    ELSE IF disk.adapter.saved THEN "trained"
    ELSE IF trainer.started THEN "training"
    ELSE "not_trained"

\* C6: the lifecycle only moves not trained -> training -> trained -> merged,
\* one state at a time; the adapter is loaded, for inference and for the
\* merge, only in the trained state, with all epochs run and the adapter
\* saved.
C6_Lifecycle ==
    [][/\ Phase' # Phase =>
              <<Phase, Phase'>> \in {<<"not_trained", "training">>,
                                     <<"training", "trained">>,
                                     <<"trained", "merged">>}
       /\ (imodel' # imodel \/ mmodel' # mmodel) =>
              /\ Phase = "trained"
              /\ trainer.epoch = NumTrainEpochs
              /\ disk.adapter.saved]_vars

\* the merged state has been reached, the adapter having been loaded for
\* inference on the way
C6_Witness == Phase = "merged" /\ imodel.loaded /\ mmodel.loaded

(***************************************************************************)
(* C7                                                                      *)
(***************************************************************************)
\* C7: a training step changes nothing of the model but the adapter's A and
\* B, and from the start of training on the base weight is the pretrained
\* one.
C7_BaseFrozen ==
    /\ [][trainer'.global_step # trainer.global_step =>
              [model' EXCEPT !.A = model.A, !.B = model.B] = model]_vars
    /\ []((trainer.started /\ model.loaded) =>
              (model.w = hub_w /\ ~model.grad_w))

\* all epochs have run and the adapter has moved away from its initial B = 0
C7_Witness ==
    /\ trainer.epoch = NumTrainEpochs
    /\ model.loaded
    /\ model.B # 0

(***************************************************************************)
(* C8                                                                      *)
(***************************************************************************)
\* the run was interrupted inside trainer.train() before the last epoch ended
InterruptedInEpoch ==
    status = "aborted" /\ pc = "train" /\ trainer.epoch < NumTrainEpochs

CheckpointEpochs == {c.epoch : c \in disk.checkpoints}

\* what holds of a run whether interrupted or not: at most 3 epochs, the
\* cells after training only after 3 epochs, the final adapter and tokenizer
\* in output_dir only after 3 epochs
EpochsAndFinalSave ==
    /\ trainer.epoch <= NumTrainEpochs
    /\ CellIndex(pc) > CellIndex("train") => trainer.epoch = NumTrainEpochs
    /\ (disk.adapter.saved \/ disk.tokenizer) =>
           /\ trainer.epoch = NumTrainEpochs
           /\ disk.adapter.saved /\ disk.tokenizer
    /\ InterruptedInEpoch =>
           /\ ~disk.adapter.saved /\ ~disk.tokenizer
           /\ ~model.loaded

\* C8 as stated: after an interrupt during epoch k the only checkpoint in
\* output_dir is the one of epoch k-1 (none when k = 1).
C8_OnlyLastCheckpoint ==
    /\ EpochsAndFinalSave
    /\ InterruptedInEpoch =>
           /\ CheckpointEpochs = {trainer.epoch} \ {0}
           /\ \A c \in disk.checkpoints :
                  c.global_step = trainer.epoch * StepsPerEpoch

\* C8 amended: after an interrupt during epoch k output_dir holds the
\* checkpoints of the epochs 1 .. k-1, one each, written at the epoch's last
\* step (the newest is that of epoch k-1, nothing when k = 1); no file holds
\* a step of epoch k.
C8_AllEarlierCheckpoints ==
    /\ EpochsAndFinalSave
    /\ InterruptedInEpoch =>
           /\ CheckpointEpochs = 1 .. trainer.epoch
           /\ Cardinality(disk.checkpoints) = trainer.epoch
           /\ \A c \in disk.checkpoints :
                  c.global_step = c.epoch * StepsPerEpoch

\* interrupted in the middle of the last epoch
C8_Witness ==
    /\ InterruptedInEpoch
    /\ trainer.epoch = NumTrainEpochs - 1
    /\ trainer.step > 0

(***************************************************************************)
(* C9                                                                      *)
(***************************************************************************)
Unsupported == cap < FlashMinCapability

\* C9 as stated: with the flash block in use on unsupported hardware the
\* notebook stops at the check: it never gets past the model-loading cell,
\* and the path is never enabled.
C9_AbortsOnUnsupported ==
    (flash_block /\ Unsupported) =>
        /\ CellIndex(pc) <= CellIndex("load_model")
        /\ ~use_flash_attention /\ ~attn_patched

\* C9 amended: the path is enabled only by the flash block and only on
\* supported hardware; on unsupported hardware the model-loading cell does
\* not abort, the notebook goes on without the path.
C9_SkipsOnUnsupported ==
    /\ (use_flash_attention \/ attn_patched \/ model.flash \/ model.upcast) =>
           (flash_block /\ ~Unsupported)
    /\ ~(status = "aborted" /\ pc = "load_model")
    /\ (flash_block /\ Unsupported /\ CellIndex(pc) > CellIndex("load_model")) =>
           (model.loaded \/ status = "aborted") /\ ~use_flash_attention

\* unsupported hardware, the shell assertion has failed, the flash block is
\* in use, and the notebook is past the model-loading cell
C9_Witness ==
    /\ flash_block /\ Unsupported
    /\ flash_check = "assertion_failed"
    /\ pc = After("load_model")
    /\ status = "running"

(***************************************************************************)
(* C10                                                                     *)
(***************************************************************************)
\* largest |input| the adapted layer is applied to
XMax == 2

ActInputs == (0 - XMax) .. XMax

C11_BoundedGeneration ==
    /\ [](gen.new_tokens <= MaxNewTokens)
    /\ [](gen.finished =>
             /\ gen.new_tokens >= 1
             /\ gen.new_tokens = MaxNewTokens \/ gen.eos)
    /\ [](gen.running => gen.new_tokens < MaxNewTokens /\ ~gen.eos)
    /\ []((gen.running \/ gen.finished) =>
             /\ gen.do_sample
             /\ gen.top_p = TopPTenths
             /\ gen.temperature = TemperatureTenths
             /\ gen.input_len = 1 + Len(prompt))
    /\ (gen.running ~> gen.finished)

\* a continuation of full length: 100 tokens, none of them end-of-sequence
C11_Witness ==
    /\ gen.finished
    /\ gen.new_tokens = MaxNewTokens
    /\ ~gen.eos

(***************************************************************************)
(* C12                                                                     *)
(***************************************************************************)
\* C12: the step on which a stage fails changes neither the position nor
\* the files (nothing is rolled back or cleaned up), and once the run is
\* aborted it stays aborted: the position never moves again, so the failed
\* stage is not run again and no later stage runs, and no object of the
\* notebook and no file changes any more.
C12_AbortIsFinal ==
    [][/\ (status = "running" /\ status' = "aborted") =>
              (pc' = pc /\ disk' = disk)
       /\ status = "aborted" =>
              /\ status' = "aborted"
              /\ UNCHANGED <<pc, dataset, sample, out, prompt, gen, model,
                             trainer, disk, imodel, mmodel,
                             use_flash_attention, attn_patched>>]_vars

\* the merge stage has failed with the adapter saved and loaded for
\* inference before
C12_Witness ==
    /\ status = "aborted"
    /\ pc = "merge"
    /\ disk.adapter.saved
    /\ imodel.loaded
    /\ ~disk.merged.saved

(***************************************************************************)
(* C13                                                                     *)
(***************************************************************************)
IsPrefix(s, t) == Len(s) <= Len(t) /\ SubSeq(t, 1, Len(s)) = s

\* C13: the prompt of the generation cell is the training string of the same
\* record without the instruction and the closing newline: it is a prefix of
\* format_instruction(sample), it ends with "### Response:" and a newline,
\* and prompt + instruction + newline is the training string.
C13_PromptIsPrefix ==
    pc = After("generate") =>
        /\ IsPrefix(prompt, format_instruction(sample))
        /\ EndsWith(prompt, HdrResponse \o NL)
        /\ format_instruction(sample) = prompt \o sample.instruction \o NL
        /\ Len(prompt) =
               Len(format_instruction(sample)) - Len(sample.instruction) - 1

\* the prompt has been built for a record whose fields hold header texts
C13_Witness ==
    /\ pc = After("generate")
    /\ sample.instruction = HdrInput
    /\ sample.response = HdrResponse \o NL

====
